---- MODULE Spec2Model ----
(***************************************************************************)
(* Model of the multi-counter terminal application (src/src/main.rs).      *)
(*                                                                         *)
(* The App owns three counters (u8 value + focused flag), a focus index    *)
(* and an exit flag.  main() initialises the terminal, runs the loop       *)
(* draw -> read one event -> apply it, and restores the terminal.          *)
(*                                                                         *)
(* Two specifications:                                                     *)
(*   Spec     the whole process, from main() on the default App;           *)
(*   SpecAny  App::handle_key_event applied directly (as the unit tests    *)
(*            do) to an App with any positive number of counters.          *)
(***************************************************************************)
EXTENDS Integers, Sequences, FiniteSets

VARIABLES
    focus_on,         \* App.focus_on : usize
    counters,         \* App.counters : Vec<Counter>, a function 0..len-1 -> Counter
    exit,             \* App.exit : bool
    pc,               \* position of the process in main()/run()
    app_result,       \* the value run() returned (main.rs:21)
    main_result,      \* what the process ends with
    raw,              \* terminal is in raw / alternate-screen mode
    restores,         \* number of tui::restore() attempts so far
    reported,         \* a failed restore was reported with eprintln!
    hook,             \* a crash handler that restores the terminal is installed
    draws,            \* number of completed terminal.draw calls
    reads,            \* number of event::read calls
    drawn,            \* the App state handed to the last draw
    keys,             \* codes of the key presses given to handle_key_event
    ret,              \* outcome of the last handle_key_event call
    prev,             \* App states before the last (up to two) key presses
    overflow_checks,  \* build profile: arithmetic overflow panics (dev/test) or wraps (release)
    event             \* type and kind of the last event event::read() delivered

vars == <<focus_on, counters, exit, pc, app_result, main_result, raw, restores,
          reported, hook, draws, reads, drawn, keys, ret, prev, overflow_checks,
          event>>

----------------------------------------------------------------------------
(* Bounds of the model *)

\* events read by one run of the process
MaxEvents == 6
\* largest number of counters of an App in SpecAny
MaxCounters == 3
\* key presses applied to one App in SpecAny
MaxTestKeys == 2

(* Program constants *)

\* number of counters of App::default()
NumCounters == 3
\* largest valid counter value: the bound tested by increment_current_counter
MaxValue == 2
\* a Counter's value is a u8
U8 == 256
\* number of constraints of counter_layout in render_frame
NumPanels == 3

----------------------------------------------------------------------------
(* Results: color_eyre::Result<()> and the panic outcome *)

NoneR == [kind |-> "none", chain |-> <<>>]
OkR == [kind |-> "Ok", chain |-> <<>>]
Err(chain) == [kind |-> "Err", chain |-> chain]
Panic(msg) == [kind |-> "panic", chain |-> <<msg>>]

\* WrapErr::wrap_err: an Ok passes through, an Err gets msg as outermost context
wrap_err(r, msg) == IF r.kind = "Err" THEN Err(<<msg>> \o r.chain) ELSE r

\* the root cause of an error report
root_cause(r) == r.chain[Len(r.chain)]

----------------------------------------------------------------------------
(* u8 arithmetic as the build produces it *)

\* a - b on u8: panics with overflow checks, wraps without
SubU8(a, b, checks) ==
    IF a >= b THEN [panic |-> FALSE, val |-> a - b]
    ELSE IF checks THEN [panic |-> TRUE, val |-> a]
    ELSE [panic |-> FALSE, val |-> (a - b + U8) % U8]

\* a + b on u8: panics with overflow checks, wraps without
AddU8(a, b, checks) ==
    IF a + b < U8 THEN [panic |-> FALSE, val |-> a + b]
    ELSE IF checks THEN [panic |-> TRUE, val |-> a]
    ELSE [panic |-> FALSE, val |-> (a + b) % U8]

----------------------------------------------------------------------------
(* The App and its state transitions *)

\* Counter::default()
Counter_default == [focused |-> FALSE, counter |-> 0]

\* Counter::start_focused()
start_focused == [focused |-> TRUE, counter |-> 0]

\* App::default()
App_default ==
    [focus_on |-> 0,
     counters |-> [i \in 0..(NumCounters - 1) |->
                      IF i = 0 THEN start_focused ELSE Counter_default],
     exit |-> FALSE]

\* Vec::len
len(cs) == Cardinality(DOMAIN cs)

\* the App as one value
app == [focus_on |-> focus_on, counters |-> counters, exit |-> exit]

App_exit_resets(a) == [app |-> [App_default EXCEPT !.exit = TRUE], ret |-> OkR]

\* App::exit
App_exit(a) == [app |-> [a EXCEPT !.exit = TRUE], ret |-> OkR]

next_counter_saturates(a) ==
    LET c1 == [a.counters EXCEPT ![a.focus_on].focused = FALSE]
        f1 == IF a.focus_on = len(c1) - 1 THEN a.focus_on ELSE a.focus_on + 1
        c2 == [c1 EXCEPT ![f1].focused = TRUE]
    IN  [app |-> [a EXCEPT !.focus_on = f1, !.counters = c2], ret |-> OkR]

next_counter_resets_value(a) ==
    LET c1 == [a.counters EXCEPT ![a.focus_on].focused = FALSE]
        f1 == IF a.focus_on = len(c1) - 1 THEN 0 ELSE a.focus_on + 1
        c2 == [c1 EXCEPT ![f1] = start_focused]
    IN  [app |-> [a EXCEPT !.focus_on = f1, !.counters = c2], ret |-> OkR]

next_counter_keeps_flag(a) ==
    LET f1 == IF a.focus_on = len(a.counters) - 1 THEN 0 ELSE a.focus_on + 1
        c2 == [a.counters EXCEPT ![f1].focused = TRUE]
    IN  [app |-> [a EXCEPT !.focus_on = f1, !.counters = c2], ret |-> OkR]

\* App::next_counter
next_counter(a) ==
    LET c1 == [a.counters EXCEPT ![a.focus_on].focused = FALSE]
        f1 == IF a.focus_on = len(c1) - 1 THEN 0 ELSE a.focus_on + 1
        c2 == [c1 EXCEPT ![f1].focused = TRUE]
    IN  [app |-> [a EXCEPT !.focus_on = f1, !.counters = c2], ret |-> OkR]

previous_counter_no_wrap(a) ==
    LET c1 == [a.counters EXCEPT ![a.focus_on].focused = FALSE]
        f1 == IF a.focus_on = 0 THEN 0 ELSE a.focus_on - 1
        c2 == [c1 EXCEPT ![f1].focused = TRUE]
    IN  [app |-> [a EXCEPT !.focus_on = f1, !.counters = c2], ret |-> OkR]

\* App::previous_counter
previous_counter(a) ==
    LET c1 == [a.counters EXCEPT ![a.focus_on].focused = FALSE]
        f1 == IF a.focus_on = 0 THEN len(c1) - 1 ELSE a.focus_on - 1
        c2 == [c1 EXCEPT ![f1].focused = TRUE]
    IN  [app |-> [a EXCEPT !.focus_on = f1, !.counters = c2], ret |-> OkR]

increment_rolls_back(a, checks) ==
    LET s == AddU8(a.counters[a.focus_on].counter, 1, checks)
    IN  IF s.panic THEN [app |-> a, ret |-> Panic("attempt to add with overflow")]
        ELSE IF s.val > MaxValue THEN [app |-> a, ret |-> Err(<<"counter overflow">>)]
        ELSE [app |-> [a EXCEPT !.counters[a.focus_on].counter = s.val], ret |-> OkR]

increment_off_by_one(a, checks) ==
    LET s == AddU8(a.counters[a.focus_on].counter, 1, checks)
        a1 == [a EXCEPT !.counters[a.focus_on].counter = s.val]
    IN  IF s.panic THEN [app |-> a, ret |-> Panic("attempt to add with overflow")]
        ELSE IF s.val >= MaxValue THEN [app |-> a1, ret |-> Err(<<"counter overflow">>)]
        ELSE [app |-> a1, ret |-> OkR]

\* App::increment_current_counter
increment_current_counter(a, checks) ==
    LET s == AddU8(a.counters[a.focus_on].counter, 1, checks)
        a1 == [a EXCEPT !.counters[a.focus_on].counter = s.val]
    IN  IF s.panic THEN [app |-> a, ret |-> Panic("attempt to add with overflow")]
        ELSE IF s.val > MaxValue THEN [app |-> a1, ret |-> Err(<<"counter overflow">>)]
        ELSE [app |-> a1, ret |-> OkR]

decrement_to_zero(a, checks) ==
    LET s == SubU8(a.counters[a.focus_on].counter, 1, checks)
    IN  IF s.panic THEN [app |-> a, ret |-> Panic("attempt to subtract with overflow")]
        ELSE [app |-> [a EXCEPT !.counters[a.focus_on].counter = 0], ret |-> OkR]

decrement_first_counter(a, checks) ==
    LET s == SubU8(a.counters[0].counter, 1, checks)
    IN  IF s.panic THEN [app |-> a, ret |-> Panic("attempt to subtract with overflow")]
        ELSE [app |-> [a EXCEPT !.counters[0].counter = s.val], ret |-> OkR]

\* App::decrement_current_counter
decrement_current_counter(a, checks) ==
    LET s == SubU8(a.counters[a.focus_on].counter, 1, checks)
    IN  IF s.panic THEN [app |-> a, ret |-> Panic("attempt to subtract with overflow")]
        ELSE [app |-> [a EXCEPT !.counters[a.focus_on].counter = s.val], ret |-> OkR]

\* key codes: the five bound characters and "x" for every other code
Keys == {"q", "h", "l", "j", "k", "x"}

handle_key_event_swapped(a, code, checks) ==
    CASE code = "q" -> App_exit(a)
      [] code = "l" -> previous_counter(a)
      [] code = "h" -> next_counter(a)
      [] code = "j" -> decrement_current_counter(a, checks)
      [] code = "k" -> increment_current_counter(a, checks)
      [] OTHER -> [app |-> a, ret |-> OkR]

\* App::handle_key_event
handle_key_event(a, code, checks) ==
    CASE code = "q" -> App_exit(a)
      [] code = "l" -> next_counter(a)
      [] code = "h" -> previous_counter(a)
      [] code = "j" -> decrement_current_counter(a, checks)
      [] code = "k" -> increment_current_counter(a, checks)
      [] OTHER -> [app |-> a, ret |-> OkR]

----------------------------------------------------------------------------
(* Input events and the loop body *)

\* what event::read() can deliver: a key event of some kind and code, an event
\* that is not a key event, or an I/O error
Events ==
    [type : {"Key"}, kind : {"Press", "Release", "Repeat"}, code : Keys]
      \cup {[type |-> "Resize"], [type |-> "ReadError"]}

\* what App::handle_events matches on: the type of an event and, for a key
\* event, its kind
event_class(ev) ==
    [type |-> ev.type, kind |-> IF ev.type = "Key" THEN ev.kind ELSE "-"]

\* no event has been read yet
NoEvent == [type |-> "none", kind |-> "-"]

handle_events_any_kind(a, ev, checks) ==
    IF ev.type = "ReadError" THEN [app |-> a, ret |-> Err(<<"io error">>)]
    ELSE IF ev.type = "Key"
    THEN LET r == handle_key_event(a, ev.code, checks)
         IN  [app |-> r.app, ret |-> wrap_err(r.ret, "handling key event failed")]
    ELSE [app |-> a, ret |-> OkR]

\* App::handle_events
handle_events(a, ev, checks) ==
    IF ev.type = "ReadError" THEN [app |-> a, ret |-> Err(<<"io error">>)]
    ELSE IF ev.type = "Key" /\ ev.kind = "Press"
    THEN LET r == handle_key_event(a, ev.code, checks)
         IN  [app |-> r.app, ret |-> wrap_err(r.ret, "handling key event failed")]
    ELSE [app |-> a, ret |-> OkR]

render_frame_two_panels(a) ==
    [app |-> a,
     panels |-> {i \in 0..(NumPanels - 2) : i < len(a.counters)},
     panic |-> NumPanels - 1 > len(a.counters)]

\* App::render_frame: one widget per rectangle of counter_layout, each taken
\* from self.counters[i]; indexing past the end of the Vec panics
render_frame(a) ==
    [app |-> a,
     panels |-> {i \in 0..(NumPanels - 1) : i < len(a.counters)},
     panic |-> NumPanels > len(a.counters)]

\* tui::init: the terminal enters raw / alternate-screen mode
tui_init(r) == TRUE

\* tui::restore: the terminal leaves raw / alternate-screen mode unless the call fails
tui_restore(r, ok) == IF ok THEN FALSE ELSE r

\* the terminal session restores the terminal when the process crashes
crash_restore == TRUE

\* the last (up to two) App states before a key press
remember(p, a) == IF Len(p) < 2 THEN Append(p, a) ELSE <<p[2], a>>

----------------------------------------------------------------------------
(* The process: main() and App::run() *)

Init ==
    /\ focus_on = App_default.focus_on
    /\ counters = App_default.counters
    /\ exit = App_default.exit
    /\ pc = "start"
    /\ app_result = NoneR
    /\ main_result = NoneR
    /\ raw = FALSE
    /\ restores = 0
    /\ reported = FALSE
    /\ hook = FALSE
    /\ draws = 0
    /\ reads = 0
    /\ drawn = <<>>
    /\ keys = <<>>
    /\ ret = NoneR
    /\ prev = <<>>
    /\ overflow_checks \in BOOLEAN
    /\ event = NoEvent

\* main, lines 19-20: color_eyre::install()? and tui::init()?
main_init ==
    /\ pc = "start"
    /\ \E outcome \in {"ok", "install failed", "init failed"} :
         IF outcome = "ok"
         THEN /\ raw' = tui_init(raw)
              /\ hook' = crash_restore
              /\ pc' = "while"
              /\ UNCHANGED main_result
         ELSE /\ main_result' = Err(<<outcome>>)
              /\ pc' = "done"
              /\ UNCHANGED <<raw, hook>>
    /\ UNCHANGED <<focus_on, counters, exit, app_result, restores, reported,
                   draws, reads, drawn, keys, ret, prev, overflow_checks,
                   event>>

run_while_skips_draw ==
    /\ pc = "while"
    /\ IF exit
       THEN /\ app_result' = OkR
            /\ pc' = "restore"
       ELSE /\ pc' = "events"
            /\ UNCHANGED app_result
    /\ UNCHANGED <<focus_on, counters, exit, main_result, raw, restores, reported,
                   hook, draws, reads, drawn, keys, ret, prev, overflow_checks,
                   event>>

run_while_ignores_exit ==
    /\ pc = "while"
    /\ pc' = "draw"
    /\ UNCHANGED <<focus_on, counters, exit, app_result, main_result, raw, restores,
                   reported, hook, draws, reads, drawn, keys, ret, prev, overflow_checks,
                   event>>

\* App::run, line 70 and line 74: the loop test and the return of Ok(())
run_while ==
    /\ pc = "while"
    /\ IF exit
       THEN /\ app_result' = OkR
            /\ pc' = "restore"
       ELSE /\ pc' = "draw"
            /\ UNCHANGED app_result
    /\ UNCHANGED <<focus_on, counters, exit, main_result, raw, restores, reported,
                   hook, draws, reads, drawn, keys, ret, prev, overflow_checks,
                   event>>

\* a panic unwinds out of run() and main(): the crash handler, when installed,
\* attempts a restore; main's own restore (line 22) is not reached
unwind(r) ==
    /\ pc' = "panicked"
    /\ main_result' = r
    /\ IF hook
       THEN \E ok \in BOOLEAN :
              /\ raw' = tui_restore(raw, ok)
              /\ restores' = restores + 1
       ELSE UNCHANGED <<raw, restores>>
    /\ UNCHANGED <<app_result, reported, hook>>

\* App::run, line 71: terminal.draw(|frame| self.render_frame(frame))?
run_draw ==
    /\ pc = "draw"
    /\ \E ok \in BOOLEAN :
         LET fr == render_frame(app)
         IN  IF fr.panic
             THEN /\ unwind(Panic("index out of bounds"))
                  /\ UNCHANGED <<draws, drawn>>
             ELSE IF ok
             THEN /\ draws' = draws + 1
                  /\ drawn' = <<fr>>
                  /\ pc' = "events"
                  /\ UNCHANGED <<app_result, main_result, raw, restores, reported, hook>>
             ELSE /\ app_result' = Err(<<"io error">>)
                  /\ pc' = "restore"
                  /\ UNCHANGED <<draws, drawn, main_result, raw, restores, reported, hook>>
    /\ UNCHANGED <<focus_on, counters, exit, reads, keys, ret, prev, overflow_checks,
                   event>>

run_handle_events_absorbs_err ==
    /\ pc = "events"
    /\ reads < MaxEvents
    /\ \E ev \in Events :
         LET r == handle_events(app, ev, overflow_checks)
             pressed == ev.type = "Key" /\ ev.kind = "Press"
         IN  /\ reads' = reads + 1
             /\ event' = event_class(ev)
             /\ focus_on' = r.app.focus_on
             /\ counters' = r.app.counters
             /\ exit' = r.app.exit
             /\ IF pressed
                THEN /\ keys' = Append(keys, ev.code)
                     /\ prev' = remember(prev, app)
                     /\ ret' = handle_key_event(app, ev.code, overflow_checks).ret
                ELSE UNCHANGED <<keys, prev, ret>>
             /\ IF r.ret.kind \in {"Ok", "Err"}
                THEN /\ pc' = "while"
                     /\ UNCHANGED <<app_result, main_result, raw, restores, reported, hook>>
                ELSE unwind(r.ret)
    /\ UNCHANGED <<draws, drawn, overflow_checks>>

\* App::run, line 72: self.handle_events().wrap_err("handle events failed")?
run_handle_events ==
    /\ pc = "events"
    /\ reads < MaxEvents
    /\ \E ev \in Events :
         LET r == handle_events(app, ev, overflow_checks)
             pressed == ev.type = "Key" /\ ev.kind = "Press"
         IN  /\ reads' = reads + 1
             /\ event' = event_class(ev)
             /\ focus_on' = r.app.focus_on
             /\ counters' = r.app.counters
             /\ exit' = r.app.exit
             /\ IF pressed
                THEN /\ keys' = Append(keys, ev.code)
                     /\ prev' = remember(prev, app)
                     /\ ret' = handle_key_event(app, ev.code, overflow_checks).ret
                ELSE UNCHANGED <<keys, prev, ret>>
             /\ CASE r.ret.kind = "Ok" ->
                       /\ pc' = "while"
                       /\ UNCHANGED <<app_result, main_result, raw, restores, reported, hook>>
                  [] r.ret.kind = "Err" ->
                       /\ app_result' = wrap_err(r.ret, "handle events failed")
                       /\ pc' = "restore"
                       /\ UNCHANGED <<main_result, raw, restores, reported, hook>>
                  [] OTHER -> unwind(r.ret)
    /\ UNCHANGED <<draws, drawn, overflow_checks>>

main_restore_masks_result ==
    /\ pc = "restore"
    /\ \E ok \in BOOLEAN :
         /\ raw' = tui_restore(raw, ok)
         /\ reported' = (reported \/ ~ok)
         /\ main_result' = IF ok THEN app_result ELSE Err(<<"restore failed">>)
    /\ restores' = restores + 1
    /\ pc' = "done"
    /\ UNCHANGED <<focus_on, counters, exit, app_result, hook, draws, reads, drawn,
                   keys, ret, prev, overflow_checks,
                   event>>

main_restore_skips_on_err ==
    /\ pc = "restore"
    /\ IF app_result.kind = "Err"
       THEN UNCHANGED <<raw, reported, restores>>
       ELSE /\ \E ok \in BOOLEAN :
                 /\ raw' = tui_restore(raw, ok)
                 /\ reported' = (reported \/ ~ok)
            /\ restores' = restores + 1
    /\ main_result' = app_result
    /\ pc' = "done"
    /\ UNCHANGED <<focus_on, counters, exit, app_result, hook, draws, reads, drawn,
                   keys, ret, prev, overflow_checks,
                   event>>

\* main, lines 22-28: restore the terminal, report a failed restore, return app_result
main_restore ==
    /\ pc = "restore"
    /\ \E ok \in BOOLEAN :
         /\ raw' = tui_restore(raw, ok)
         /\ reported' = (reported \/ ~ok)
    /\ restores' = restores + 1
    /\ main_result' = app_result
    /\ pc' = "done"
    /\ UNCHANGED <<focus_on, counters, exit, app_result, hook, draws, reads, drawn,
                   keys, ret, prev, overflow_checks,
                   event>>

Next ==
    \/ main_init
    \/ run_while
    \/ run_draw
    \/ run_handle_events
    \/ main_restore

Spec == Init /\ [][Next]_vars

----------------------------------------------------------------------------
(* handle_key_event applied directly to an App, as the unit tests apply it,  *)
(* for an App with any positive number of counters                           *)

InitAny ==
    /\ \E n \in 1..MaxCounters :
         \E f \in 0..(n - 1) :
           \E vals \in [0..(n - 1) -> 0..MaxValue] :
             /\ focus_on = f
             /\ counters = [i \in 0..(n - 1) |->
                              [focused |-> (i = f), counter |-> vals[i]]]
    /\ exit = FALSE
    /\ pc = "test"
    /\ app_result = NoneR
    /\ main_result = NoneR
    /\ raw = FALSE
    /\ restores = 0
    /\ reported = FALSE
    /\ hook = FALSE
    /\ draws = 0
    /\ reads = 0
    /\ drawn = <<>>
    /\ keys = <<>>
    /\ ret = NoneR
    /\ prev = <<>>
    /\ overflow_checks \in BOOLEAN
    /\ event = NoEvent

\* one call app.handle_key_event(code.into())
TestKey ==
    /\ pc = "test"
    /\ ret.kind # "panic"
    /\ Len(keys) < MaxTestKeys
    /\ \E code \in Keys :
         LET r == handle_key_event(app, code, overflow_checks)
         IN  /\ focus_on' = r.app.focus_on
             /\ counters' = r.app.counters
             /\ exit' = r.app.exit
             /\ ret' = r.ret
             /\ keys' = Append(keys, code)
             /\ prev' = remember(prev, app)
    /\ UNCHANGED <<pc, app_result, main_result, raw, restores, reported, hook,
                   draws, reads, drawn, overflow_checks,
                   event>>

\* one call of render_frame on the App
TestRender ==
    /\ pc = "test"
    /\ ret.kind # "panic"
    /\ drawn' = <<render_frame(app)>>
    /\ UNCHANGED <<focus_on, counters, exit, pc, app_result, main_result, raw,
                   restores, reported, hook, draws, reads, keys, ret, prev,
                   overflow_checks,
                   event>>

NextAny ==
    \/ TestKey
    \/ TestRender

SpecAny == InitAny /\ [][NextAny]_vars

----------------------------------------------------------------------------
(* Vocabulary of the properties *)

\* the code of the most recent key press
LastKey == keys[Len(keys)]

\* the App as it was before the most recent key press
Before == prev[Len(prev)]

\* the App as it was before the two most recent key presses
BeforePair == prev[Len(prev) - 1]

\* the value of the focused counter of an App
FocusedValue(a) == a.counters[a.focus_on].counter

\* the process has left main(), by return or by a panic
Exited == pc \in {"done", "panicked"}

\* the process has left the loop of run(), by return, error or panic
LeftLoop == pc \in {"restore", "panicked"} \/ (pc = "done" /\ app_result.kind # "none")

----------------------------------------------------------------------------
(* Properties *)

\* C1: in every state of the process, whatever keys were applied, exactly one
\* counter has focused = true and it is the counter at focus_on.
C1_ExactlyOneFocused ==
    /\ focus_on \in DOMAIN counters
    /\ counters[focus_on].focused
    /\ Cardinality({i \in DOMAIN counters : counters[i].focused}) = 1

\* C1 witness: focus has moved with 'l' and then wrapped backwards with 'h' twice
C1_Witness ==
    /\ Len(keys) >= 3
    /\ LastKey = "h"
    /\ \E i \in 1..Len(keys) : keys[i] = "l"
    /\ focus_on = NumCounters - 1
    /\ ret = OkR

\* C2 (as claimed): in every reachable state, the state left by a failed
\* increment included, every counter's value is at most 2.
C2_ValueAtMostTwo ==
    \A i \in DOMAIN counters : counters[i].counter <= MaxValue

\* C3 (as claimed): the keys k, k, l, k, h, j applied to the default App all
\* succeed and end with counter 0 = 2, counter 1 = 1 and focus_on = 0.
C3_ScenarioAsClaimed ==
    keys = <<"k", "k", "l", "k", "h", "j">> =>
        /\ ret = OkR
        /\ counters[0].counter = 2
        /\ counters[1].counter = 1
        /\ focus_on = 0

\* C3 (amended): the keys k, k, l, k, h, j applied to the default App all
\* succeed and end with counter 0 = 1 (2 after the first two keys, less the
\* final 'j'), counter 1 = 1, counter 2 = 0 and focus_on = 0.
C3_Scenario ==
    /\ keys = <<"k", "k", "l", "k", "h">> =>
          /\ ret = OkR
          /\ counters[0].counter = 2
          /\ counters[1].counter = 1
          /\ focus_on = 0
    /\ keys = <<"k", "k", "l", "k", "h", "j">> =>
          /\ ret = OkR
          /\ counters[0].counter = 1
          /\ counters[1].counter = 1
          /\ counters[2].counter = 0
          /\ focus_on = 0
          /\ counters[0].focused

\* C3 witness: the six keys have been applied and the loop goes on
C3_Witness ==
    /\ keys = <<"k", "k", "l", "k", "h", "j">>
    /\ pc = "while"
    /\ counters[0].counter = 1

C5_OverflowLeavesThree ==
    /\ (Len(keys) >= 1 /\ LastKey = "k" /\ FocusedValue(Before) = 2) =>
          /\ ret = Err(<<"counter overflow">>)
          /\ FocusedValue(app) = 3
          /\ focus_on = Before.focus_on
    /\ keys \in {<<"k">>, <<"k", "k">>} => ret = OkR
    /\ keys = <<"k", "k", "k">> =>
          /\ ret = Err(<<"counter overflow">>)
          /\ counters[0].counter = 3

\* C5 witness: the third 'k' on the default App has failed
C5_Witness ==
    /\ keys = <<"k", "k", "k">>
    /\ ret.kind = "Err"
    /\ pc = "restore"

\* C6 (as claimed): 'j' on a focused counter at 0 is a panic "attempt to
\* subtract with overflow": handle_key_event returns neither Ok nor Err and the
\* process draws and reads nothing more.
C6_DecrementAtZeroPanics ==
    (Len(keys) >= 1 /\ LastKey = "j" /\ FocusedValue(Before) = 0) =>
        /\ ret = Panic("attempt to subtract with overflow")
        /\ pc = "panicked"

\* C7: once 'q' has been applied in run(), exit is true and stays true, nothing
\* more is drawn or read, and run() returns Ok.
C7_QuitEndsLoop ==
    /\ [](Len(keys) >= 1 /\ LastKey = "q" =>
            /\ exit
            /\ pc \in {"while", "restore", "done"}
            /\ (pc # "while" => app_result = OkR))
    /\ [][exit => (exit' /\ draws' = draws /\ reads' = reads
                     /\ pc' \in {"restore", "done"})]_vars

\* C7 witness: the process has returned after some keys and then 'q'
C7_Witness ==
    /\ pc = "done"
    /\ exit
    /\ Len(keys) >= 2
    /\ LastKey = "q"
    /\ main_result = OkR

\* C8: on an App with at least one counter, 'l' then 'h', and 'h' then 'l',
\* bring focus_on and every focused flag back to what they were.
C8_FocusInverse ==
    (Len(keys) >= 2 /\ <<keys[Len(keys) - 1], LastKey>> \in {<<"l", "h">>, <<"h", "l">>}) =>
        /\ focus_on = BeforePair.focus_on
        /\ DOMAIN counters = DOMAIN BeforePair.counters
        /\ \A i \in DOMAIN counters :
              counters[i].focused = BeforePair.counters[i].focused

\* C8 witness: 'h' then 'l' from index 0 of at least two counters, through the wrap
C8_Witness ==
    /\ Len(keys) >= 2
    /\ <<keys[Len(keys) - 1], LastKey>> = <<"h", "l">>
    /\ len(counters) >= 2
    /\ Before.focus_on = len(counters) - 1
    /\ focus_on = 0

\* C9: 'k' on a focused counter at 0 or 1 returns Ok and adds exactly 1 to it.
C9_IncrementSucceeds ==
    (Len(keys) >= 1 /\ LastKey = "k" /\ FocusedValue(Before) \in {0, 1}) =>
        /\ ret = OkR
        /\ FocusedValue(app) = FocusedValue(Before) + 1

\* C9 witness: a 'k' has taken a focused counter from 1 to 2
C9_Witness ==
    /\ Len(keys) >= 1
    /\ LastKey = "k"
    /\ FocusedValue(Before) = 1
    /\ FocusedValue(app) = 2
    /\ ret = OkR

\* C10: 'j' on a focused counter at 1 or 2 returns Ok and takes exactly 1 from it.
C10_DecrementSucceeds ==
    (Len(keys) >= 1 /\ LastKey = "j" /\ FocusedValue(Before) \in {1, 2}) =>
        /\ ret = OkR
        /\ FocusedValue(app) = FocusedValue(Before) - 1

\* C10 witness: a 'j' has taken a focused counter other than the first from 2 to 1
C10_Witness ==
    /\ Len(keys) >= 1
    /\ LastKey = "j"
    /\ focus_on # 0
    /\ FocusedValue(Before) = 2
    /\ FocusedValue(app) = 1
    /\ ret = OkR

\* C11: 'q' changes only the exit flag: focus_on and every counter (flag and
\* value) are as before the key; with 'q' as the first key the process ends
\* with the default App apart from exit = true.
C11_QuitChangesOnlyExit ==
    /\ (Len(keys) >= 1 /\ LastKey = "q") =>
          /\ ret = OkR
          /\ exit
          /\ focus_on = Before.focus_on
          /\ counters = Before.counters
    /\ keys = <<"q">> => app = [App_default EXCEPT !.exit = TRUE]

\* C11 witness: the process has ended on a 'q' pressed in a state other than
\* the default one
C11_Witness ==
    /\ pc = "done"
    /\ Len(keys) >= 2
    /\ LastKey = "q"
    /\ Before.focus_on # 0
    /\ \E i \in DOMAIN counters : counters[i].counter # 0

\* C12: a press of a key other than q, h, l, j, k, a key event that is not a
\* press (release, repeat) and an event that is not a key event leave counters,
\* focus_on and exit unchanged and succeed, so that the loop goes on.
C12_OtherEventsIgnored ==
    [][(/\ pc = "events"
        /\ reads' = reads + 1
        /\ \/ event'.type = "Resize"
           \/ event'.type = "Key" /\ event'.kind # "Press"
           \/ event'.type = "Key" /\ event'.kind = "Press" /\ keys' = Append(keys, "x"))
       => /\ focus_on' = focus_on
          /\ counters' = counters
          /\ exit' = exit
          /\ pc' = "while"
          /\ app_result' = app_result
          /\ main_result' = main_result
          /\ (event'.kind = "Press" => ret' = OkR)]_vars

\* C12 witness: a key release was read after some key had changed the App, and
\* the loop goes on
C12_Witness ==
    /\ event = [type |-> "Key", kind |-> "Release"]
    /\ pc = "while"
    /\ Len(keys) >= 1
    /\ app # App_default
    /\ exit = FALSE

\* C13: the process ends with what run() returned: Ok exactly when the loop
\* ended on exit = true, otherwise the error that ended the loop (a draw
\* error, a read error or the counter overflow); a failed restore is reported
\* and does not replace that result.
C13_ResultIsRunResult ==
    /\ (pc = "done" /\ app_result.kind # "none") => main_result = app_result
    /\ Exited => (main_result = OkR <=> (pc = "done" /\ exit))
    /\ (pc = "done" /\ app_result.kind = "Err") =>
          app_result \in
            {Err(<<"io error">>),
             Err(<<"handle events failed", "io error">>),
             Err(<<"handle events failed", "handling key event failed",
                   "counter overflow">>)}

\* C13 witness: run() failed, the restore failed too and was reported, and the
\* process ends with run()'s error
C13_Witness ==
    /\ pc = "done"
    /\ reported
    /\ raw
    /\ app_result.kind = "Err"
    /\ main_result = app_result

C15_OverflowIsFatal ==
    /\ []((Len(keys) >= 1 /\ LastKey = "k" /\ ret.kind = "Err") =>
            /\ pc \in {"restore", "done"}
            /\ app_result = Err(<<"handle events failed",
                                  "handling key event failed", "counter overflow">>)
            /\ drawn # <<>>
            /\ drawn[1].app = Before
            /\ drawn[1].app # app)
    /\ [][app_result.kind = "Err" =>
            /\ draws' = draws
            /\ reads' = reads
            /\ keys' = keys
            /\ drawn' = drawn
            /\ app_result' = app_result]_vars

\* C15 witness: the process has ended on the overflow of a counter other than
\* the first
C15_Witness ==
    /\ pc = "done"
    /\ Len(keys) >= 4
    /\ LastKey = "k"
    /\ ret.kind = "Err"
    /\ focus_on # 0
    /\ main_result.kind = "Err"

\* C16: 'l' and 'h' always return Ok and move the focus circularly: with N
\* counters 'l' sets focus_on to (focus_on + 1) mod N and 'h' to
\* (focus_on - 1 + N) mod N; the old counter loses focused, the new one has it.
C16_FocusMovesCircularly ==
    (Len(keys) >= 1 /\ LastKey \in {"l", "h"}) =>
        LET n == len(Before.counters)
            old == Before.focus_on
        IN  /\ ret = OkR
            /\ len(counters) = n
            /\ LastKey = "l" => focus_on = (old + 1) % n
            /\ LastKey = "h" => focus_on = (old - 1 + n) % n
            /\ counters[focus_on].focused
            /\ old # focus_on => ~counters[old].focused

\* C16 witness: 'l' has wrapped from the last of at least two counters to index 0
C16_Witness ==
    /\ Len(keys) >= 1
    /\ LastKey = "l"
    /\ len(counters) >= 2
    /\ Before.focus_on = len(counters) - 1
    /\ focus_on = 0
    /\ ~counters[len(counters) - 1].focused

\* C17: every read of an event comes after a draw of exactly the state the
\* event is then applied to, one draw per read; when the loop ends on quit the
\* number of draws equals the number of reads.
C17_DrawBeforeRead ==
    /\ [][reads' = reads + 1 =>
            /\ pc = "events"
            /\ drawn # <<>>
            /\ drawn[1].app = app
            /\ draws = reads + 1]_vars
    /\ []((pc \in {"restore", "done"} /\ app_result = OkR) => draws = reads)

\* C17 witness: the process has ended on quit after three draws and three reads
C17_Witness ==
    /\ pc = "done"
    /\ app_result = OkR
    /\ draws = 3
    /\ reads = 3

\* C18: 'k' then 'j' on a focused counter at 0 or 1, and 'j' then 'k' on a
\* focused counter at 1 or 2, both succeed and leave the App exactly as it was.
C18_IncDecInverse ==
    Len(keys) >= 2 =>
        LET pair == <<keys[Len(keys) - 1], LastKey>>
        IN  /\ (pair = <<"k", "j">> /\ FocusedValue(BeforePair) \in {0, 1}) =>
                  (ret = OkR /\ app = BeforePair)
            /\ (pair = <<"j", "k">> /\ FocusedValue(BeforePair) \in {1, 2}) =>
                  (ret = OkR /\ app = BeforePair)

\* C18 witness: 'k' then 'j' on a focused counter at 1 is back at 1 through 2
C18_Witness ==
    /\ Len(keys) >= 2
    /\ <<keys[Len(keys) - 1], LastKey>> = <<"k", "j">>
    /\ FocusedValue(BeforePair) = 1
    /\ FocusedValue(Before) = 2
    /\ FocusedValue(app) = 1

\* C19: 'h' and 'l' leave every counter's value and the exit flag unchanged;
\* 'k' and 'j' change nothing but the value of the counter at focus_on.
C19_Frames ==
    Len(keys) >= 1 =>
        /\ LastKey \in {"h", "l"} =>
              /\ exit = Before.exit
              /\ DOMAIN counters = DOMAIN Before.counters
              /\ \A i \in DOMAIN counters :
                    counters[i].counter = Before.counters[i].counter
        /\ LastKey \in {"j", "k"} =>
              /\ exit = Before.exit
              /\ focus_on = Before.focus_on
              /\ DOMAIN counters = DOMAIN Before.counters
              /\ \A i \in DOMAIN counters :
                    /\ counters[i].focused = Before.counters[i].focused
                    /\ i # focus_on => counters[i].counter = Before.counters[i].counter

\* C19 witness: 'l' has moved the focus onto a counter whose value is 2,
\* after a 'k' or 'j' on another counter
C19_Witness ==
    /\ Len(keys) >= 2
    /\ keys[Len(keys) - 1] \in {"j", "k"}
    /\ LastKey = "l"
    /\ focus_on # Before.focus_on
    /\ FocusedValue(app) = 2

\* C20 (as claimed): every frame drawn by run() shows all counter values
\* within 0..2.
C20_DrawnValuesInRange ==
    drawn # <<>> =>
        \A i \in DOMAIN drawn[1].app.counters :
            drawn[1].app.counters[i].counter \in 0..MaxValue

====
